---- MODULE Spec2Model ----
(***************************************************************************)
(* zkutil: the binary witness container codec (wtns_reader::read and       *)
(* circom_circuit::load_witness_from_bin_reader) and the R1CS model with   *)
(* its circuit synthesis bridge (CircomCircuit).                           *)
(*                                                                         *)
(* Unsigned integers of the program (u32, u64, the 256-bit field           *)
(* representation) are numerals: sequences of base-256 digits, most        *)
(* significant digit first, without leading zeros (zero is <<>>).  A       *)
(* little-endian read of the stream is therefore a real conversion, and    *)
(* 32-bit wrap-around is computed digit by digit.                          *)
(***************************************************************************)
EXTENDS Integers, Sequences, FiniteSets, TLC

(***************************************************************************)
(* Bounds of the model                                                     *)
(***************************************************************************)
\* largest witness length whose elements are all present in a stream
MaxW == 3
\* largest number of simultaneous deviations from the well-formed layout
MaxFaults == 2
\* largest num_inputs (the constant-one wire included) and num_aux of an R1CS
MaxInputs == 2
MaxAux == 1
\* number of elements of the scalar field E::Fr of the synthesis bridge,
\* which is generic in the engine E
FrOrder == 3
\* number of affine points of G1 that the model tells apart
NumPoints == 2
\* largest length of the two tables the parameters of the filter are built of
MaxTable == 2
\* largest num_inputs of an R1CS whose proving key is exported, and largest
\* number of constraints of its long constraint lists
MaxKeyInputs == 3
MaxConstraints == 10
\* number of elements of the base field Fq of the curves of the proofs
FqOrder == 7

(***************************************************************************)
(* Numerals                                                                *)
(***************************************************************************)
Byte == 0..255

Reverse(s) == [i \in 1..Len(s) |-> s[Len(s) + 1 - i]]

RECURSIVE Strip(_)
Strip(s) == IF s = <<>> THEN <<>>
            ELSE IF Head(s) = 0 THEN Strip(Tail(s)) ELSE s

\* the numeral of a small natural number
RECURSIVE NumOf(_)
NumOf(n) == IF n = 0 THEN <<>> ELSE Append(NumOf(n \div 256), n % 256)

\* a < b on numerals
NumLt(a, b) ==
    \/ Len(a) < Len(b)
    \/ /\ Len(a) = Len(b)
       /\ \E i \in 1..Len(a) :
             /\ a[i] < b[i]
             /\ \A j \in 1..(i - 1) : a[j] = b[j]

\* the k low-order digits of a numeral, least significant first
ToLE(a, k) == [i \in 1..k |-> IF i <= Len(a) THEN a[Len(a) + 1 - i] ELSE 0]

\* byteorder::ReadBytesExt::read_u32::<LittleEndian> / read_u64 /
\* PrimeFieldRepr::read_le: the value of a little-endian byte string
FromLE(bytes) == Strip(Reverse(bytes))

RECURSIVE SumTo(_, _)
SumTo(f, n) == IF n = 0 THEN 0 ELSE f[n] + SumTo(f, n - 1)

RECURSIVE Carry(_, _, _)
\* digits (least significant first) of the column sums cols from column k on
Carry(cols, k, c) ==
    IF k > Len(cols)
    THEN IF c = 0 THEN <<>> ELSE <<c % 256>> \o Carry(cols, k, c \div 256)
    ELSE <<(cols[k] + c) % 256>> \o Carry(cols, k + 1, (cols[k] + c) \div 256)

\* the exact product of two numerals
NumMul(a, b) ==
    IF a = <<>> \/ b = <<>> THEN <<>>
    ELSE LET x == ToLE(a, Len(a))
             y == ToLE(b, Len(b))
             n == Len(a) + Len(b) - 1
             cols == [k \in 1..n |->
                        SumTo([i \in 1..Len(x) |->
                                 IF k + 1 - i >= 1 /\ k + 1 - i <= Len(y)
                                 THEN x[i] * y[k + 1 - i] ELSE 0], Len(x))]
         IN  FromLE(Carry(cols, 1, 0))

\* the sum of two numerals
NumAdd(a, b) ==
    LET n == IF Len(a) > Len(b) THEN Len(a) ELSE Len(b)
        x == ToLE(a, n)
        y == ToLE(b, n)
    IN  FromLE(Carry([k \in 1..n |-> x[k] + y[k]], 1, 0))

\* the value reduced modulo 2^32
WrapU32(a) == FromLE(ToLE(a, 4))

\* true when the value does not fit in 32 bits
OverflowsU32(a) == Len(a) > 4

\* the value of a numeral that fits a machine integer of the checker
RECURSIVE NumToNat(_)
NumToNat(a) == IF a = <<>> THEN 0
               ELSE 256 * NumToNat(SubSeq(a, 1, Len(a) - 1)) + a[Len(a)]

(***************************************************************************)
(* Program constants                                                       *)
(***************************************************************************)
\* magic = "wtns"
MAGIC == <<119, 116, 110, 115>>

\* hex!("010000f0...6430"): the bn256 scalar field modulus, little-endian
BN256_PRIME == <<1, 0, 0, 240, 147, 245, 225, 67, 145, 112, 185, 121, 72, 232, 51, 40, 93, 88, 129, 129, 182, 69, 80, 184, 41, 160, 49, 225, 114, 78, 100, 48>>

\* the modulus of E::Fr that PrimeField::from_repr compares with
FR_MODULUS == FromLE(BN256_PRIME)

\* bytes of one PrimeFieldRepr (4 limbs of 64 bits)
REPR_BYTES == 32

(***************************************************************************)
(* Results                                                                 *)
(***************************************************************************)
NoResult == [tag |-> "None"]
\* Err(std::io::Error::new(kind, msg)), or an anyhow::Error whose kind is
\* "AdHoc" for bail!(msg) and the kind of the wrapped error for `?`
Err(kind, msg) == [tag |-> "Err", kind |-> kind, msg |-> msg]
\* an arithmetic-overflow or index panic
Panic(msg) == [tag |-> "Panic", msg |-> msg]

\* A reader is a stream [bytes, more]: its first bytes, followed by `more`
\* further 32-byte little-endian encodings of the field element 1 (the
\* elements of a witness of 2^27 wires are not written out one by one).
\* The number of bytes of the stream after position pos:
Remaining(stream, pos) ==
    IF pos <= Len(stream.bytes)
    THEN NumAdd(NumOf(Len(stream.bytes) - pos),
                NumMul(NumOf(stream.more), NumOf(REPR_BYTES)))
    ELSE LET used == pos - Len(stream.bytes)
             q == (used + REPR_BYTES - 1) \div REPR_BYTES
         IN  IF q > stream.more THEN <<>>
             ELSE NumAdd(NumMul(NumOf(stream.more - q), NumOf(REPR_BYTES)),
                         NumOf(q * REPR_BYTES - used))

\* the byte at position p (from 1) of the stream
ByteAt(stream, p) ==
    IF p <= Len(stream.bytes) THEN stream.bytes[p]
    ELSE IF (p - Len(stream.bytes) - 1) % REPR_BYTES = 0 THEN 1 ELSE 0

\* Read::read_exact: n more bytes are available after pos
Avail(stream, pos, n) == ~NumLt(Remaining(stream, pos), NumOf(n))
\* the n bytes after pos
Bytes(stream, pos, n) == [k \in 1..n |-> ByteAt(stream, pos + k)]

\* PrimeField::from_repr: a representation is an element iff it is below
\* the modulus
from_repr(repr) ==
    IF NumLt(repr, FR_MODULUS) THEN [tag |-> "Ok", fr |-> repr]
    ELSE Err("NotInField", "not in field")

(***************************************************************************)
(* wtns_reader.rs                                                          *)
(***************************************************************************)
\* read_field: one field element from the stream at pos
read_field(stream, pos) ==
    IF ~Avail(stream, pos, REPR_BYTES)
    THEN Err("UnexpectedEof", "failed to fill whole buffer")
    ELSE LET fr == from_repr(FromLE(Bytes(stream, pos, REPR_BYTES)))
         IN  IF fr.tag = "Ok"
             THEN [tag |-> "Ok", fr |-> fr.fr, pos |-> pos + REPR_BYTES]
             ELSE Err("InvalidData", fr.msg)

\* read_header: the header section payload, whose declared size is size
read_header(stream, pos, size) ==
    IF ~Avail(stream, pos, 4)
    THEN Err("UnexpectedEof", "failed to fill whole buffer")
    ELSE
    LET field_size == FromLE(Bytes(stream, pos, 4))
        p1 == pos + 4
    IN  IF NumLt(Remaining(stream, p1), field_size)
        THEN Err("UnexpectedEof", "failed to fill whole buffer")
        ELSE
        LET n == NumToNat(field_size)
            prime_size == Bytes(stream, p1, n)
            p2 == p1 + n
        IN  IF size # NumOf(4 + 32 + 4)
            THEN Err("InvalidData", "Invalid header section size")
            ELSE IF ~Avail(stream, p2, 4)
            THEN Err("UnexpectedEof", "failed to fill whole buffer")
            ELSE [tag |-> "Ok",
                  header |-> [field_size |-> field_size,
                              prime_size |-> prime_size,
                              witness_len |-> FromLE(Bytes(stream, p2, 4))],
                  pos |-> p2 + 4]

RECURSIVE read_witness_loop(_, _, _, _, _)
\* the loop of read_witness: iteration i, elements read so far in result
read_witness_loop(stream, pos, i, witness_len, result) ==
    IF ~NumLt(NumOf(i), witness_len)
    THEN [tag |-> "Ok", witness |-> result, pos |-> pos]
    ELSE LET f == read_field(stream, pos)
         IN  IF f.tag # "Ok" THEN f
             ELSE read_witness_loop(stream, f.pos, i + 1, witness_len,
                                    Append(result, f.fr))

\* read_witness; overflow_checks is the build's arithmetic overflow mode
read_witness(stream, pos, size, header, overflow_checks) ==
    LET product == NumMul(header.witness_len, header.field_size)
    IN  IF OverflowsU32(product) /\ overflow_checks
        THEN Panic("attempt to multiply with overflow")
        ELSE IF size # WrapU32(product)
        THEN Err("InvalidData", "Invalid witness section size")
        ELSE read_witness_loop(stream, pos, 0, header.witness_len, <<>>)

\* wtns_reader::read
read(stream, overflow_checks) ==
    IF ~Avail(stream, 0, 4)
    THEN Err("UnexpectedEof", "failed to fill whole buffer")
    ELSE IF Bytes(stream, 0, 4) # MAGIC
    THEN Err("InvalidData", "Invalid magic number")
    ELSE IF ~Avail(stream, 4, 4)
    THEN Err("UnexpectedEof", "failed to fill whole buffer")
    ELSE
    LET version == FromLE(Bytes(stream, 4, 4))
    IN  IF NumLt(NumOf(2), version)
        THEN Err("InvalidData", "Unsupported version")
        ELSE IF ~Avail(stream, 8, 4)
        THEN Err("UnexpectedEof", "failed to fill whole buffer")
        ELSE IF ~Avail(stream, 12, 4)
        THEN Err("UnexpectedEof", "failed to fill whole buffer")
        ELSE IF FromLE(Bytes(stream, 12, 4)) # NumOf(1)
        THEN Err("InvalidData", "Invalid section type")
        ELSE IF ~Avail(stream, 16, 8)
        THEN Err("UnexpectedEof", "failed to fill whole buffer")
        ELSE
        LET h == read_header(stream, 24, FromLE(Bytes(stream, 16, 8)))
        IN  IF h.tag # "Ok" THEN h
            ELSE IF h.header.field_size # NumOf(32)
            THEN Err("InvalidData", "This parser only supports 32-byte fields")
            ELSE IF h.header.prime_size # BN256_PRIME
            THEN Err("InvalidData", "This parser only supports bn256")
            ELSE IF ~Avail(stream, h.pos, 4)
            THEN Err("UnexpectedEof", "failed to fill whole buffer")
            ELSE IF FromLE(Bytes(stream, h.pos, 4)) # NumOf(2)
            THEN Err("InvalidData", "Invalid section type")
            ELSE IF ~Avail(stream, h.pos + 4, 8)
            THEN Err("UnexpectedEof", "failed to fill whole buffer")
            ELSE
            LET w == read_witness(stream, h.pos + 12,
                                  FromLE(Bytes(stream, h.pos + 4, 8)),
                                  h.header, overflow_checks)
            IN  IF w.tag # "Ok" THEN w
                ELSE [tag |-> "Ok", version |-> version,
                      header |-> h.header, witness |-> w.witness]

(***************************************************************************)
(* circom_circuit.rs: load_witness_from_bin_reader                         *)
(***************************************************************************)
RECURSIVE load_witness_loop(_, _, _, _, _)
\* the loop of load_witness_from_bin_reader
load_witness_loop(stream, pos, i, witness_len, result) ==
    IF ~NumLt(NumOf(i), witness_len)
    THEN [tag |-> "Ok", witness |-> result]
    ELSE IF ~Avail(stream, pos, REPR_BYTES)
    THEN Err("UnexpectedEof", "failed to fill whole buffer")
    ELSE LET fr == from_repr(FromLE(Bytes(stream, pos, REPR_BYTES)))
         IN  IF fr.tag # "Ok" THEN fr
             ELSE load_witness_loop(stream, pos + REPR_BYTES, i + 1,
                                    witness_len, Append(result, fr.fr))

load_witness_from_bin_reader(stream, overflow_checks) ==
    IF ~Avail(stream, 0, 4)
    THEN Err("UnexpectedEof", "failed to fill whole buffer")
    ELSE IF Bytes(stream, 0, 4) # MAGIC
    THEN Err("AdHoc", "invalid file header")
    ELSE IF ~Avail(stream, 4, 4)
    THEN Err("UnexpectedEof", "failed to fill whole buffer")
    ELSE IF NumLt(NumOf(2), FromLE(Bytes(stream, 4, 4)))
    THEN Err("AdHoc", "unsupported file version")
    ELSE IF ~Avail(stream, 8, 4)
    THEN Err("UnexpectedEof", "failed to fill whole buffer")
    ELSE IF FromLE(Bytes(stream, 8, 4)) # NumOf(2)
    THEN Err("AdHoc", "invalid num sections")
    ELSE IF ~Avail(stream, 12, 4)
    THEN Err("UnexpectedEof", "failed to fill whole buffer")
    ELSE IF FromLE(Bytes(stream, 12, 4)) # NumOf(1)
    THEN Err("AdHoc", "invalid section type")
    ELSE IF ~Avail(stream, 16, 8)
    THEN Err("UnexpectedEof", "failed to fill whole buffer")
    ELSE IF FromLE(Bytes(stream, 16, 8)) # NumOf(4 + 32 + 4)
    THEN Err("AdHoc", "invalid section len")
    ELSE IF ~Avail(stream, 24, 4)
    THEN Err("UnexpectedEof", "failed to fill whole buffer")
    ELSE
    LET field_size == FromLE(Bytes(stream, 24, 4))
    IN  IF field_size # NumOf(32)
        THEN Err("AdHoc", "invalid field byte size")
        ELSE IF ~Avail(stream, 28, NumToNat(field_size))
        THEN Err("UnexpectedEof", "failed to fill whole buffer")
        ELSE IF Bytes(stream, 28, NumToNat(field_size)) # BN256_PRIME
        THEN Err("AdHoc", "invalid curve prime")
        ELSE IF ~Avail(stream, 60, 4)
        THEN Err("UnexpectedEof", "failed to fill whole buffer")
        ELSE
        LET witness_len == FromLE(Bytes(stream, 60, 4))
            product == NumMul(witness_len, field_size)
        IN  IF ~Avail(stream, 64, 4)
            THEN Err("UnexpectedEof", "failed to fill whole buffer")
            ELSE IF FromLE(Bytes(stream, 64, 4)) # NumOf(2)
            THEN Err("AdHoc", "invalid section type")
            ELSE IF ~Avail(stream, 68, 8)
            THEN Err("UnexpectedEof", "failed to fill whole buffer")
            ELSE IF OverflowsU32(product) /\ overflow_checks
            THEN Panic("attempt to multiply with overflow")
            ELSE IF FromLE(Bytes(stream, 68, 8)) # WrapU32(product)
            THEN Err("AdHoc", "invalid witness section size")
            ELSE load_witness_loop(stream, 76, 0, witness_len, <<>>)

(***************************************************************************)
(* The witness container: inputs of the parsers                            *)
(***************************************************************************)
\* the largest element of the field, and the numeral of 2^27
FR_MINUS_ONE == FromLE(<<0>> \o Tail(BN256_PRIME))
TwoPow27 == 2 ^ 27

RECURSIVE Flatten(_)
Flatten(ss) == IF ss = <<>> THEN <<>> ELSE Head(ss) \o Flatten(Tail(ss))

\* the byte layout of a container: every integer little-endian, the
\* elements as 32-byte little-endian encodings
Layout(c) ==
    c.magic \o ToLE(c.version, 4) \o ToLE(c.num_sections, 4)
    \o ToLE(c.sec1_type, 4) \o ToLE(c.sec1_size, 8)
    \o ToLE(c.field_size, 4) \o c.prime \o ToLE(c.witness_len, 4)
    \o ToLE(c.sec2_type, 4) \o ToLE(c.sec2_size, 8)
    \o Flatten([i \in 1..Len(c.elems) |-> ToLE(c.elems[i], REPR_BYTES)])

\* the stream of a container: its layout, then the c.more further elements
StreamOf(c) == [bytes |-> Layout(c), more |-> c.more]

\* the integers an element at position i of a container is drawn from
ElemChoices(i) == {NumOf(i), FR_MINUS_ONE, FR_MODULUS}

\* the violated invariants of a container, in stream order
Violations(c) ==
    LET v(b, name) == IF b THEN <<name>> ELSE <<>>
        RECURSIVE elemsFrom(_)
        elemsFrom(i) ==
            IF i > Len(c.elems) THEN <<>>
            ELSE v(~NumLt(c.elems[i], FR_MODULUS), "element") \o elemsFrom(i + 1)
    IN  v(c.magic # MAGIC, "magic")
        \o v(NumLt(NumOf(2), c.version), "version")
        \o v(c.num_sections # NumOf(2), "num_sections")
        \o v(c.sec1_type # NumOf(1), "sec1_type")
        \o v(c.sec1_size # NumOf(40), "sec1_size")
        \o v(c.field_size # NumOf(32), "field_size")
        \o v(c.prime # BN256_PRIME, "prime")
        \o v(c.sec2_type # NumOf(2), "sec2_type")
        \o v(c.sec2_size # NumMul(c.witness_len, NumOf(32)), "sec2_size")
        \o elemsFrom(1)
        \o v(NumOf(Len(c.elems) + c.more) # c.witness_len, "truncated")

VARIABLES container, stream, res_read, res_load

wtns_vars == <<container, stream, res_read, res_load>>

\* the containers given to the parsers: witness lengths 0..MaxW with every
\* element in the layout, and witness lengths from 2^27 on, whose streams
\* either stop after the elements of the layout or hold all the elements
\* (then with the exact data section length); at most MaxFaults violations
Containers ==
    { c \in
        UNION { UNION {
         [magic : {MAGIC, <<119, 116, 110, 116>>},
          version : {NumOf(1), NumOf(2), NumOf(3)},
          num_sections : {NumOf(1), NumOf(2), NumOf(3)},
          sec1_type : {NumOf(1), NumOf(2)},
          sec1_size : {NumOf(40), NumOf(24)},
          field_size : {NumOf(32), NumOf(16)},
          prime : {BN256_PRIME, <<3>> \o Tail(BN256_PRIME)},
          witness_len : {NumOf(n)} \cup
                        (IF n <= 1 THEN {NumOf(TwoPow27 + n)} ELSE {}),
          sec2_type : {NumOf(2), NumOf(1)},
          sec2_size : {NumOf(32 * n), NumOf(32 * (n + 1)),
                       NumMul(NumOf(TwoPow27 + n), NumOf(32))},
          elems : {es},
          more : {0, TwoPow27}]
           : es \in {e \in [1..n -> UNION {ElemChoices(i) : i \in 1..n}] :
                        \A i \in 1..n : e[i] \in ElemChoices(i)}}
         : n \in 0..MaxW} :
      /\ c.more > 0 =>
            /\ c.witness_len = NumOf(Len(c.elems) + c.more)
            /\ c.sec2_size = NumMul(c.witness_len, NumOf(32))
      /\ Len(Violations(c)) <= MaxFaults }

(***************************************************************************)
(* Properties of the witness codec                                         *)
(***************************************************************************)
\* the results of the parsers that have run
WtnsResults == {r \in {res_read, res_load} : r.tag # "None"}

\* a well-formed container of version 1 holding 1, 2, 3
Container123 ==
    [magic |-> MAGIC, version |-> NumOf(1), num_sections |-> NumOf(2),
     sec1_type |-> NumOf(1), sec1_size |-> NumOf(40),
     field_size |-> NumOf(32), prime |-> BN256_PRIME,
     witness_len |-> NumOf(3), sec2_type |-> NumOf(2),
     sec2_size |-> NumOf(96),
     elems |-> <<NumOf(1), NumOf(2), NumOf(3)>>, more |-> 0]

\* the witness a container encodes has n elements and r is its prefix
DecodedFrom(c, r) ==
    /\ NumOf(Len(r)) = c.witness_len
    /\ \A k \in 1..Len(r) :
          r[k] = IF k <= Len(c.elems) THEN c.elems[k] ELSE NumOf(1)

\* C1: on a well-formed container each witness parser succeeds and returns
\* exactly the W field elements the container encodes, in stream order.
C1_WellFormedDecodes ==
    \A r \in WtnsResults :
        Violations(container) = <<>> =>
            /\ r.tag = "Ok"
            /\ DecodedFrom(container, r.witness)

\* C1 for the witness lengths W whose product W * 32 fits in 32 bits
DecodesBelowOverflow ==
    \A r \in WtnsResults :
        (Violations(container) = <<>>
         /\ ~OverflowsU32(NumMul(container.witness_len, NumOf(32)))) =>
            /\ r.tag = "Ok"
            /\ r.witness = container.elems

\* both parsers have decoded the version 1 container of 1, 2, 3 to [1, 2, 3]
Decoded123 ==
    /\ container = Container123
    /\ res_read.tag = "Ok" /\ res_load.tag = "Ok"
    /\ res_read.witness = <<<<1>>, <<2>>, <<3>>>>
    /\ res_load.witness = <<<<1>>, <<2>>, <<3>>>>

\* the error taxonomy: the kind each violated invariant belongs to
KindOf(name) ==
    CASE name \in {"magic", "num_sections", "sec1_type", "sec1_size",
                   "sec2_type", "sec2_size"} -> "FormatError"
      [] name = "version" -> "UnsupportedVersion"
      [] name \in {"field_size", "prime"} -> "UnsupportedCurve"
      [] OTHER -> "Other"

\* streams malformed in exactly one respect: wrong magic, version 3, field
\* width 16, another modulus, a header size and a data size mismatch
SingleFaults ==
    {[Container123 EXCEPT !.magic = <<119, 116, 110, 116>>],
     [Container123 EXCEPT !.version = NumOf(3)],
     [Container123 EXCEPT !.field_size = NumOf(16)],
     [Container123 EXCEPT !.prime = <<3>> \o Tail(BN256_PRIME)],
     [Container123 EXCEPT !.sec1_size = NumOf(24)],
     [Container123 EXCEPT !.sec2_size = NumOf(64)]}

\* C2: a stream malformed in exactly one respect is rejected, and the error
\* kind in the parser's result differs from the kind the same parser gives
\* for a stream malformed in a respect of another kind of the taxonomy.
C2_KindsDistinguishable ==
    LET one == Violations(container)
        distinct(r, parse(_)) ==
            /\ r.tag = "Err"
            /\ \A c \in SingleFaults :
                  KindOf(Violations(c)[1]) # KindOf(one[1])
                      => parse(StreamOf(c)).kind # r.kind
        viaRead(st) == read(st, FALSE)
        viaLoad(st) == load_witness_from_bin_reader(st, FALSE)
    IN  (Len(one) = 1 /\ KindOf(one[1]) # "Other") =>
            /\ res_read.tag # "None" => distinct(res_read, viaRead)
            /\ res_load.tag # "None" => distinct(res_load, viaLoad)

\* C3: no witness parser accepts a container whose section count is not 2.
C3_SectionCountRejected ==
    \A r \in WtnsResults :
        container.num_sections # NumOf(2) => r.tag # "Ok"

\* the failure each parser reports for a violated invariant
FailureOfRead(name) ==
    CASE name = "magic" -> "Invalid magic number"
      [] name = "version" -> "Unsupported version"
      [] name = "num_sections" -> "Invalid section count"
      [] name = "sec1_type" -> "Invalid section type"
      [] name = "sec1_size" -> "Invalid header section size"
      [] name = "field_size" -> "This parser only supports 32-byte fields"
      [] name = "prime" -> "This parser only supports bn256"
      [] name = "sec2_type" -> "Invalid section type"
      [] name = "sec2_size" -> "Invalid witness section size"
      [] name = "element" -> "not in field"
FailureOfLoad(name) ==
    CASE name = "magic" -> "invalid file header"
      [] name = "version" -> "unsupported file version"
      [] name = "num_sections" -> "invalid num sections"
      [] name = "sec1_type" -> "invalid section type"
      [] name = "sec1_size" -> "invalid section len"
      [] name = "field_size" -> "invalid field byte size"
      [] name = "prime" -> "invalid curve prime"
      [] name = "sec2_type" -> "invalid section type"
      [] name = "sec2_size" -> "invalid witness section size"
      [] name = "element" -> "not in field"

\* the container holds every element its witness length announces
Complete(c) == NumOf(Len(c.elems) + c.more) = c.witness_len

\* C4 for load_witness_from_bin_reader
FirstViolationLoad ==
    (Complete(container) /\ Violations(container) # <<>>
     /\ res_load.tag # "None") =>
        /\ res_load.tag = "Err"
        /\ res_load.msg = FailureOfLoad(Violations(container)[1])

\* C4 for wtns_reader::read
FirstViolationRead ==
    (Complete(container) /\ Violations(container) # <<>>
     /\ res_read.tag # "None") =>
        /\ res_read.tag = "Err"
        /\ res_read.msg = FailureOfRead(Violations(container)[1])

\* C4: on a stream that violates one or several invariants each parser
\* reports the failure of the first violated invariant in stream order and
\* returns no witness.
C4_FirstViolationReported == FirstViolationRead /\ FirstViolationLoad

\* C4 holds of load_witness_from_bin_reader for the witness lengths W whose
\* product W * 32 fits in 32 bits
LoadOrderBelowOverflow ==
    ~OverflowsU32(NumMul(container.witness_len, NumOf(32)))
        => FirstViolationLoad

\* and of wtns_reader::read when, besides, the section count is 2
ReadOrderBelowOverflow ==
    (~OverflowsU32(NumMul(container.witness_len, NumOf(32)))
     /\ container.num_sections = NumOf(2)) => FirstViolationRead

\* the parser went past the size check of the data section
PassedSizeCheck(r) ==
    \/ r.tag = "Ok"
    \/ r.tag = "Err" /\ r.msg \in {"not in field", "failed to fill whole buffer"}

\* C5: the declared length of the data section passes the size check only
\* if it equals witness_len * 32 computed without wrap-around.
C5_ExactDataLength ==
    \A r \in WtnsResults :
        PassedSizeCheck(r) =>
            container.sec2_size = NumMul(container.witness_len, NumOf(32))

(***************************************************************************)
(* circom_circuit.rs: R1CS, CircomCircuit and the synthesis bridge         *)
(***************************************************************************)
\* Option<T>
None == [some |-> FALSE]
Some(v) == [some |-> TRUE, val |-> v]

\* E::Fr of the bridge: the integers modulo FrOrder
Fr == 0..(FrOrder - 1)
\* E::Fr::from_str("1").unwrap()
FrOne == 1 % FrOrder

\* v[j] of a Vec (indices from 0): the element, or an index panic
Index(v, j) ==
    IF j < Len(v) THEN [tag |-> "Ok", val |-> v[j + 1]]
    ELSE Panic("index out of bounds")

wire_value_unmapped(c, j) ==
    IF ~c.witness.some THEN [tag |-> "Ok", val |-> FrOne]
    ELSE Index(c.witness.val, j)
\* the value thunk of the allocation closures for logical wire j:
\* match witness { None => 1, Some(w) => match wire_mapping
\*                 { None => w[j], Some(m) => w[m[j]] } }
wire_value(c, j) ==
    IF ~c.witness.some THEN [tag |-> "Ok", val |-> FrOne]
    ELSE IF ~c.wire_mapping.some THEN Index(c.witness.val, j)
    ELSE LET mj == Index(c.wire_mapping.val, j)
         IN  IF mj.tag # "Ok" THEN mj ELSE Index(c.witness.val, mj.val)

RECURSIVE MapWires(_, _, _)
\* m.iter().map(|i| w[*i]).collect_vec() over the entries of m from k on
MapWires(m, w, k) ==
    IF k > Len(m) THEN [tag |-> "Ok", val |-> <<>>]
    ELSE LET x == Index(w, m[k])
             rest == MapWires(m, w, k + 1)
         IN  IF x.tag # "Ok" THEN x
             ELSE IF rest.tag # "Ok" THEN rest
             ELSE [tag |-> "Ok", val |-> <<x.val>> \o rest.val]

\* v[from..to] of a Vec: the slice, or a slice index panic
Slice(v, from, to) ==
    IF from > to THEN Panic("slice index starts after end")
    ELSE IF to > Len(v) THEN Panic("range end index out of range")
    ELSE [tag |-> "Ok", val |-> SubSeq(v, from + 1, to)]

get_public_inputs_from0(c) ==
    IF ~c.witness.some THEN None
    ELSE LET s0 == Slice(c.witness.val, 0, c.r1cs.num_inputs)
         IN  IF s0.tag # "Ok" THEN s0 ELSE Some(s0.val)
\* CircomCircuit::get_public_inputs: None, Some(inputs) or a panic
get_public_inputs(c) ==
    IF ~c.witness.some THEN None
    ELSE IF ~c.wire_mapping.some
    THEN LET sl == Slice(c.witness.val, 1, c.r1cs.num_inputs)
         IN  IF sl.tag # "Ok" THEN sl ELSE Some(sl.val)
    ELSE LET sl == Slice(c.wire_mapping.val, 1, c.r1cs.num_inputs)
         IN  IF sl.tag # "Ok" THEN sl
             ELSE LET r == MapWires(sl.val, c.witness.val, 1)
                  IN  IF r.tag # "Ok" THEN r ELSE Some(r.val)

RECURSIVE repr_to_big(_)
\* utils::repr_to_big: the decimal digits of a field element
repr_to_big(x) ==
    IF x < 10 THEN <<x>> ELSE Append(repr_to_big(x \div 10), x % 10)

\* CircomCircuit::get_public_inputs_json: the JSON list of decimal strings
get_public_inputs_json(c) ==
    LET inputs == get_public_inputs(c)
    IN  IF "tag" \in DOMAIN inputs THEN inputs
        ELSE IF ~inputs.some THEN [tag |-> "Ok", json |-> <<>>]
        ELSE [tag |-> "Ok",
              json |-> [k \in 1..Len(inputs.val) |-> repr_to_big(inputs.val[k])]]

make_index_mapped(c, index) ==
    LET j == IF c.wire_mapping.some /\ index < Len(c.wire_mapping.val)
             THEN c.wire_mapping.val[index + 1] ELSE index
    IN  IF j < c.r1cs.num_inputs THEN [kind |-> "Input", index |-> j]
        ELSE [kind |-> "Aux", index |-> j - c.r1cs.num_inputs]
\* make_index: the variable of a wire index
make_index(c, index) ==
    IF index < c.r1cs.num_inputs THEN [kind |-> "Input", index |-> index]
    ELSE [kind |-> "Aux", index |-> index - c.r1cs.num_inputs]

make_lc_reversed(c, lc_data) ==
    [k \in 1..Len(lc_data) |->
        <<make_index(c, lc_data[Len(lc_data) + 1 - k][1]),
          lc_data[Len(lc_data) + 1 - k][2]>>]
\* make_lc: the fold of the (index, coeff) terms into a LinearCombination,
\* whose terms are (Variable, coeff) in the order they were added
make_lc(c, lc_data) ==
    [k \in 1..Len(lc_data) |->
        <<make_index(c, lc_data[k][1]), lc_data[k][2]>>]

(***************************************************************************)
(* Circuit instances: inputs of the bridge                                 *)
(***************************************************************************)
\* the constraint 1 * 1 = 1 on the constant-one wire
OneConstraint == <<<< <<0, FrOne>> >>, << <<0, FrOne>> >>, << <<0, FrOne>> >>>>

\* the constraints (w_a - w_b) * w_c = w_b and (w_a - w_b) * w_c = 0, where
\* b is the wire before a and c is the constant-one wire or the last wire
ConstraintPool(nv) ==
    {<< << <<a, FrOne>>, <<(a + nv - 1) % nv, FrOrder - 1>> >>,
        << <<c, FrOne>> >>,
        IF z THEN << <<(a + nv - 1) % nv, FrOne>> >> ELSE <<>> >> :
        a \in 0..(nv - 1), c \in {0, nv - 1}, z \in BOOLEAN}

ConstraintLists(nv) ==
    {<<>>} \cup UNION {{<<k>>, <<k, OneConstraint>>, <<OneConstraint, k>>} :
                          k \in ConstraintPool(nv)}

\* the values a witness position takes: 0, 1 and -1
WitnessValues == {x \in Fr : x \in {0, FrOne, FrOrder - 1}}

\* the wire mapping that rotates the witness positions by k
Rotation(nv, k) == [j \in 1..nv |-> (j - 1 + k) % nv]

\* instances that satisfy the invariants of the data model
ValidCircuits ==
    UNION { UNION {
        [r1cs : [num_inputs : {ni}, num_aux : {na}, num_variables : {ni + na},
                 constraints : ConstraintLists(ni + na)],
         witness : {None} \cup
                   {Some(w) : w \in [1..(ni + na) -> WitnessValues]},
         wire_mapping : {None} \cup
                        {Some(Rotation(ni + na, k)) :
                            k \in {0, 1} \cap 0..(ni + na - 1)}]
        : na \in 0..MaxAux} : ni \in 1..MaxInputs }

DropLast(v) == SubSeq(v, 1, Len(v) - 1)

\* instances that break one invariant: a witness or a wire mapping of the
\* wrong length, a mapping entry beyond the witness, a term beyond the wires
InvalidCircuits ==
    UNION { LET nv == v.r1cs.num_variables
                c == [v EXCEPT !.r1cs.constraints = <<OneConstraint>>]
                w == c.witness.val
                m == c.wire_mapping.val
            IN  {[c EXCEPT !.witness = Some(DropLast(w))],
                 [c EXCEPT !.witness = Some(Append(w, 0))],
                 [c EXCEPT !.r1cs.constraints =
                      << << << <<nv, FrOne>> >>, << <<0, FrOne>> >>,
                            << <<0, FrOne>> >> >> >>]}
                \cup (IF c.wire_mapping.some
                      THEN {[c EXCEPT !.wire_mapping = Some(DropLast(m))],
                            [c EXCEPT !.wire_mapping = Some(Append(m, 0))],
                            [c EXCEPT !.wire_mapping =
                                 Some([m EXCEPT ![Len(m)] = nv])]}
                      ELSE {})
          : v \in {x \in ValidCircuits :
                      x.witness.some /\ x.r1cs.constraints = <<>>} }

VARIABLES circuit, op, pc, i, cs, calls, result, verify_calls

synth_vars == <<circuit, op, pc, i, cs, calls, result, verify_calls>>

\* the first of two runs of synthesize on one R1CS: its circuit and its calls
VARIABLE first_run

(***************************************************************************)
(* Key and proof serialization: the data                                   *)
(***************************************************************************)
\* params: the backend's Parameters; assignment: the density bitmaps of
\* prepare_prover(circuit).assignment; proof: the backend's Proof;
\* key_op, key_result: the serialization operation called and what it gave
VARIABLES params, assignment, proof, key_op, key_result

key_vars == <<params, assignment, proof, key_op, key_result>>

vars == <<container, stream, res_read, res_load,
          circuit, op, pc, i, cs, calls, result, verify_calls,
          first_run, params, assignment, proof, key_op, key_result>>

\* G1Affine::zero(): the group identity (point at infinity)
G1Zero == [infinity |-> TRUE, x |-> 0, y |-> 1]
\* the k-th of the affine points of G1 that the model tells apart
G1Point(k) == [infinity |-> FALSE, x |-> k, y |-> k + 1]
G1Points == {G1Zero} \cup {G1Point(k) : k \in 1..NumPoints}
\* CurveAffine::is_zero
is_zero(p) == p.infinity

\* Fq2 { c0, c1 }: c0 + c1 * u with u^2 = -1
Fq2(c0, c1) == [c0 |-> c0, c1 |-> c1]
\* G2Affine::zero()
G2Zero == [infinity |-> TRUE, x |-> Fq2(0, 0), y |-> Fq2(1, 0)]

\* Parameters before any key was generated or loaded
NoParams ==
    [vk |-> [alpha_g1 |-> G1Zero, beta_g1 |-> G1Zero, beta_g2 |-> G2Zero,
             gamma_g2 |-> G2Zero, delta_g1 |-> G1Zero, delta_g2 |-> G2Zero,
             ic |-> <<>>],
     h |-> <<>>, l |-> <<>>, a |-> <<>>, b_g1 |-> <<>>, b_g2 |-> <<>>]
NoAssignment ==
    [a_aux_density |-> <<>>, b_input_density |-> <<>>, b_aux_density |-> <<>>]
NoProof == [a |-> G1Zero, b |-> G2Zero, c |-> G1Zero]

\* no serialization operation has been called, on no data
KeysIdle ==
    /\ params = NoParams /\ assignment = NoAssignment /\ proof = NoProof
    /\ key_op = "none" /\ key_result = NoResult

\* the builder before synthesis: the constant-one input variable only
NewCS == [input_assignment |-> <<FrOne>>, aux_assignment |-> <<>>,
          constraints |-> <<>>]

\* no operation of the bridge has been called
BridgeIdle ==
    /\ op = "none" /\ pc = "idle" /\ i = 0
    /\ cs = NewCS /\ calls = <<>>
    /\ result = NoResult /\ verify_calls = <<>>

InitSynth ==
    /\ circuit \in ValidCircuits \cup InvalidCircuits
    /\ BridgeIdle
    /\ container = Container123
    /\ stream = StreamOf(Container123)
    /\ res_read = NoResult /\ res_load = NoResult
    /\ first_run = NoResult
    /\ KeysIdle

\* one call of the builder as the bridge makes it
Call(kind, name, value, lcs) ==
    [call |-> kind, name |-> name, value |-> value, lcs |-> lcs]

\* entry of synthesize
Synthesize ==
    /\ op = "none"
    /\ op' = "synthesize" /\ pc' = "alloc_input" /\ i' = 1
    /\ UNCHANGED <<circuit, cs, calls, result, verify_calls>>
    /\ UNCHANGED wtns_vars
    /\ UNCHANGED <<first_run, key_vars>>

\* one iteration of `for i in 1..num_inputs`: cs.alloc_input
AllocInput ==
    /\ pc = "alloc_input" /\ i < circuit.r1cs.num_inputs
    /\ LET v == wire_value(circuit, i)
       IN  IF v.tag = "Ok"
           THEN /\ cs' = [cs EXCEPT !.input_assignment = Append(@, v.val)]
                /\ calls' = Append(calls, Call("alloc_input", i, v.val, <<>>))
                /\ i' = i + 1
                /\ UNCHANGED <<pc, result>>
           ELSE /\ result' = v /\ pc' = "done"
                /\ UNCHANGED <<cs, calls, i>>
    /\ UNCHANGED <<circuit, op, verify_calls>>
    /\ UNCHANGED wtns_vars
    /\ UNCHANGED <<first_run, key_vars>>

\* the end of the first loop
AllocInputEnd ==
    /\ pc = "alloc_input" /\ i >= circuit.r1cs.num_inputs
    /\ pc' = "alloc" /\ i' = 0
    /\ UNCHANGED <<circuit, op, cs, calls, result, verify_calls>>
    /\ UNCHANGED wtns_vars
    /\ UNCHANGED <<first_run, key_vars>>

\* one iteration of `for i in 0..num_aux`: cs.alloc
Alloc ==
    /\ pc = "alloc" /\ i < circuit.r1cs.num_aux
    /\ LET v == wire_value(circuit, i + circuit.r1cs.num_inputs)
       IN  IF v.tag = "Ok"
           THEN /\ cs' = [cs EXCEPT !.aux_assignment = Append(@, v.val)]
                /\ calls' = Append(calls, Call("alloc", i, v.val, <<>>))
                /\ i' = i + 1
                /\ UNCHANGED <<pc, result>>
           ELSE /\ result' = v /\ pc' = "done"
                /\ UNCHANGED <<cs, calls, i>>
    /\ UNCHANGED <<circuit, op, verify_calls>>
    /\ UNCHANGED wtns_vars
    /\ UNCHANGED <<first_run, key_vars>>

\* the end of the second loop
AllocEnd ==
    /\ pc = "alloc" /\ i >= circuit.r1cs.num_aux
    /\ pc' = "enforce" /\ i' = 0
    /\ UNCHANGED <<circuit, op, cs, calls, result, verify_calls>>
    /\ UNCHANGED wtns_vars
    /\ UNCHANGED <<first_run, key_vars>>

\* one iteration of the loop over r1cs.constraints: cs.enforce
Enforce ==
    /\ pc = "enforce" /\ i < Len(circuit.r1cs.constraints)
    /\ LET constraint == circuit.r1cs.constraints[i + 1]
           lcs == <<make_lc(circuit, constraint[1]),
                    make_lc(circuit, constraint[2]),
                    make_lc(circuit, constraint[3])>>
       IN  /\ cs' = [cs EXCEPT !.constraints = Append(@, lcs)]
           /\ calls' = Append(calls, Call("enforce", i, 0, lcs))
    /\ i' = i + 1
    /\ UNCHANGED <<circuit, op, pc, result, verify_calls>>
    /\ UNCHANGED wtns_vars
    /\ UNCHANGED <<first_run, key_vars>>

\* Ok(()) after the last constraint
SynthesizeReturn ==
    /\ pc = "enforce" /\ i >= Len(circuit.r1cs.constraints)
    /\ pc' = "done" /\ result' = [tag |-> "Ok"]
    /\ UNCHANGED <<circuit, op, i, cs, calls, verify_calls>>
    /\ UNCHANGED wtns_vars
    /\ UNCHANGED <<first_run, key_vars>>

\* a call of CircomCircuit::get_public_inputs
GetPublicInputs ==
    /\ op = "none"
    /\ op' = "get_public_inputs" /\ pc' = "done"
    /\ LET r == get_public_inputs(circuit)
       IN  result' = IF "tag" \in DOMAIN r THEN r
                     ELSE [tag |-> "Ok", ret |-> r]
    /\ UNCHANGED <<circuit, i, cs, calls, verify_calls>>
    /\ UNCHANGED wtns_vars
    /\ UNCHANGED <<first_run, key_vars>>

\* a call of CircomCircuit::get_public_inputs_json
GetPublicInputsJson ==
    /\ op = "none"
    /\ op' = "get_public_inputs_json" /\ pc' = "done"
    /\ result' = get_public_inputs_json(circuit)
    /\ UNCHANGED <<circuit, i, cs, calls, verify_calls>>
    /\ UNCHANGED wtns_vars
    /\ UNCHANGED <<first_run, key_vars>>

\* a call of verify_circuit; verify_proof is the external verifier, whose
\* outcome is any of its results
VerifyCircuit ==
    /\ op = "none"
    /\ op' = "verify_circuit" /\ pc' = "done"
    /\ LET inputs == get_public_inputs(circuit)
       IN  IF "tag" \in DOMAIN inputs
           THEN result' = inputs /\ UNCHANGED verify_calls
           ELSE IF ~inputs.some
           THEN /\ result' = Err("SynthesisError", "AssignmentMissing")
                /\ UNCHANGED verify_calls
           ELSE /\ verify_calls' = Append(verify_calls, inputs.val)
                /\ \E outcome \in {[tag |-> "Ok", valid |-> TRUE],
                                   [tag |-> "Ok", valid |-> FALSE],
                                   Err("SynthesisError", "MalformedVerifyingKey")} :
                      result' = outcome
    /\ UNCHANGED <<circuit, i, cs, calls>>
    /\ UNCHANGED wtns_vars
    /\ UNCHANGED <<first_run, key_vars>>

NextSynth ==
    \/ Synthesize \/ AllocInput \/ AllocInputEnd \/ Alloc \/ AllocEnd
    \/ Enforce \/ SynthesizeReturn
    \/ GetPublicInputs \/ GetPublicInputsJson \/ VerifyCircuit

SpecSynth == InitSynth /\ [][NextSynth]_vars

(***************************************************************************)
(* Properties of the R1CS model and the synthesis bridge                   *)
(***************************************************************************)
\* the invariants of the data model: a bound witness and a bound wire
\* mapping have num_variables entries, the mapping stays inside the witness
\* and every term names a wire below num_variables
LengthsMatch(c) ==
    /\ c.witness.some => Len(c.witness.val) = c.r1cs.num_variables
    /\ c.wire_mapping.some =>
          /\ Len(c.wire_mapping.val) = c.r1cs.num_variables
          /\ \A k \in 1..Len(c.wire_mapping.val) :
                c.wire_mapping.val[k] < c.r1cs.num_variables
TermsInRange(c) ==
    \A k \in 1..Len(c.r1cs.constraints) : \A side \in 1..3 :
        \A t \in 1..Len(c.r1cs.constraints[k][side]) :
            c.r1cs.constraints[k][side][t][1] < c.r1cs.num_variables

\* w[j] of the logical-wire assignment: witness[mapping(j) or j]
LogicalWire(c, j) ==
    IF c.wire_mapping.some THEN c.witness.val[c.wire_mapping.val[j + 1] + 1]
    ELSE c.witness.val[j + 1]

\* C6: get_public_inputs is absent when no witness is bound; when one is
\* bound (to an instance that satisfies the data model's length invariants)
\* it returns num_inputs - 1 elements, the k-th being the witness value of
\* logical wire k through the wire mapping, wire 0 excluded.
C6_PublicInputs ==
    (op = "get_public_inputs" /\ LengthsMatch(circuit)) =>
        /\ result.tag = "Ok"
        /\ result.ret.some = circuit.witness.some
        /\ circuit.witness.some =>
              /\ Len(result.ret.val) = circuit.r1cs.num_inputs - 1
              /\ \A k \in 1..(circuit.r1cs.num_inputs - 1) :
                    result.ret.val[k] = LogicalWire(circuit, k)

\* public inputs were read through a mapping that is not the identity, and
\* differ from what the identity would give
C6_Witness ==
    /\ op = "get_public_inputs" /\ LengthsMatch(circuit)
    /\ circuit.witness.some /\ circuit.wire_mapping.some
    /\ circuit.r1cs.num_inputs = 2
    /\ result.tag = "Ok" /\ result.ret.some
    /\ result.ret.val = <<circuit.witness.val[circuit.wire_mapping.val[2] + 1]>>
    /\ result.ret.val # <<circuit.witness.val[2]>>

\* C7: with no witness bound, verify_circuit and get_public_inputs_json
\* report a failure and the external verifier is not called.
C7_AbsentInputsFail ==
    (op \in {"verify_circuit", "get_public_inputs_json"}
     /\ ~circuit.witness.some) =>
        /\ result.tag = "Err"
        /\ verify_calls = <<>>

RECURSIVE SumSeq(_)
SumSeq(q) == IF q = <<>> THEN 0 ELSE Head(q) + SumSeq(Tail(q))

\* A.w of a linear combination of the R1CS under the logical assignment
DotWires(c, lc_data) ==
    SumSeq([t \in 1..Len(lc_data) |->
               lc_data[t][2] * LogicalWire(c, lc_data[t][1])]) % FrOrder

\* every constraint of the R1CS holds under the logical assignment
R1CSSatisfied(c) ==
    \A k \in 1..Len(c.r1cs.constraints) :
        LET q == c.r1cs.constraints[k]
        IN  (DotWires(c, q[1]) * DotWires(c, q[2])) % FrOrder = DotWires(c, q[3])

\* the variable is one the builder has allocated
Allocated(b, v) ==
    IF v.kind = "Input" THEN v.index < Len(b.input_assignment)
    ELSE v.index < Len(b.aux_assignment)
\* the value the builder holds for an allocated variable
ValueOf(b, v) ==
    IF v.kind = "Input" THEN b.input_assignment[v.index + 1]
    ELSE b.aux_assignment[v.index + 1]
DotVars(b, lc) ==
    SumSeq([t \in 1..Len(lc) |-> lc[t][2] * ValueOf(b, lc[t][1])]) % FrOrder

\* the builder's constraint system is satisfied by the values it allocated
CSSatisfied(b) ==
    \A k \in 1..Len(b.constraints) :
        /\ \A side \in 1..3 : \A t \in 1..Len(b.constraints[k][side]) :
              Allocated(b, b.constraints[k][side][t][1])
        /\ (DotVars(b, b.constraints[k][1]) * DotVars(b, b.constraints[k][2]))
              % FrOrder = DotVars(b, b.constraints[k][3])

\* a bound witness that satisfies the R1CS, with wire 0 valued 1
SatisfyingInstance(c) ==
    /\ c.witness.some /\ LengthsMatch(c) /\ TermsInRange(c)
    /\ LogicalWire(c, 0) = FrOne
    /\ R1CSSatisfied(c)

\* C8: when the bound witness satisfies every constraint of the R1CS under
\* the logical-wire assignment, synthesize succeeds and the constraint
\* system it built, one constraint per R1CS constraint, is satisfied by the
\* values it allocated.
C8_SynthesisSatisfied ==
    (op = "synthesize" /\ pc = "done" /\ SatisfyingInstance(circuit)) =>
        /\ result.tag = "Ok"
        /\ Len(cs.constraints) = Len(circuit.r1cs.constraints)
        /\ CSSatisfied(cs)

\* a satisfied system of two constraints over a public and a private wire
\* was synthesized through a wire mapping that is not the identity
C8_Witness ==
    /\ op = "synthesize" /\ pc = "done" /\ SatisfyingInstance(circuit)
    /\ circuit.r1cs.num_inputs = 2 /\ circuit.r1cs.num_aux = 1
    /\ circuit.wire_mapping.some
    /\ circuit.wire_mapping.val # <<0, 1, 2>>
    /\ Len(circuit.r1cs.constraints) = 2
    /\ \E k \in 1..2 :
          /\ circuit.r1cs.constraints[k][1] = << <<2, FrOne>>, <<1, FrOrder - 1>> >>
          /\ circuit.r1cs.constraints[k][3] # <<>>
    /\ LogicalWire(circuit, 1) # LogicalWire(circuit, 2)
    /\ result.tag = "Ok" /\ CSSatisfied(cs)

\* the variable the bridge must use for a wire
VariableOfWire(c, v, wire) ==
    \/ wire < c.r1cs.num_inputs /\ v.kind = "Input" /\ v.index = wire
    \/ wire >= c.r1cs.num_inputs /\ v.kind = "Aux"
       /\ v.index + c.r1cs.num_inputs = wire

\* the k-th builder call is the one the stored order of the R1CS prescribes
CallInOrder(c, k, call) ==
    LET ni == c.r1cs.num_inputs
        nv == c.r1cs.num_inputs + c.r1cs.num_aux
    IN  IF k <= ni - 1
        THEN call.call = "alloc_input" /\ call.name = k
        ELSE IF k <= nv - 1
        THEN call.call = "alloc" /\ call.name = k - ni
        ELSE /\ call.call = "enforce" /\ call.name = k - nv
             /\ k - nv < Len(c.r1cs.constraints)
             /\ \A side \in 1..3 :
                  LET lc_data == c.r1cs.constraints[k - nv + 1][side]
                  IN  /\ Len(call.lcs[side]) = Len(lc_data)
                      /\ \A t \in 1..Len(lc_data) :
                            /\ call.lcs[side][t][2] = lc_data[t][2]
                            /\ VariableOfWire(c, call.lcs[side][t][1],
                                              lc_data[t][1])

C10_OutOfRangeFails ==
    (op = "synthesize" /\ pc = "done"
     /\ circuit.witness.some
     /\ ~(LengthsMatch(circuit) /\ TermsInRange(circuit))) =>
        result.tag = "Err"


(***************************************************************************)
(* The witness codec as a system: a stream and the two parsers             *)
(***************************************************************************)
\* the circuit of no wires but the constant one, nothing bound
EmptyCircuit ==
    [r1cs |-> [num_inputs |-> 1, num_aux |-> 0, num_variables |-> 1,
               constraints |-> <<>>],
     witness |-> None, wire_mapping |-> None]

InitWtns ==
    /\ container \in Containers
    /\ stream = StreamOf(container)
    /\ res_read = NoResult
    /\ res_load = NoResult
    /\ circuit = EmptyCircuit
    /\ BridgeIdle
    /\ first_run = NoResult
    /\ KeysIdle

\* a call of wtns_reader::read on the stream
CallRead ==
    /\ res_read = NoResult
    /\ \E overflow_checks \in BOOLEAN :
          res_read' = read(stream, overflow_checks)
    /\ UNCHANGED <<container, stream, res_load>>
    /\ UNCHANGED synth_vars
    /\ UNCHANGED <<first_run, key_vars>>

\* a call of load_witness_from_bin_reader on the stream
CallLoadWitness ==
    /\ res_load = NoResult
    /\ \E overflow_checks \in BOOLEAN :
          res_load' = load_witness_from_bin_reader(stream, overflow_checks)
    /\ UNCHANGED <<container, stream, res_read>>
    /\ UNCHANGED synth_vars
    /\ UNCHANGED <<first_run, key_vars>>

NextWtns == CallRead \/ CallLoadWitness

SpecWtns == InitWtns /\ [][NextWtns]_vars

(***************************************************************************)
(* Parameter filter                                                        *)
(***************************************************************************)
\* .clone().into_iter().filter(|x| !x.is_zero()).collect::<Vec<_>>()
FilterZero(table) == SelectSeq(table, LAMBDA x : ~is_zero(x))

filter_params_four(p) ==
    [p EXCEPT !.h = FilterZero(@), !.a = FilterZero(@),
              !.b_g1 = FilterZero(@), !.b_g2 = FilterZero(@)]
\* filter_params: the parameters after the call
filter_params(p) ==
    [p EXCEPT !.vk.ic = FilterZero(@), !.h = FilterZero(@),
              !.a = FilterZero(@), !.b_g1 = FilterZero(@),
              !.b_g2 = FilterZero(@)]

\* the point of G2 that stands at the place of a point of G1 in b_g2
G2Of(p) ==
    IF p.infinity THEN G2Zero
    ELSE [infinity |-> FALSE, x |-> Fq2(p.x, p.y), y |-> Fq2(p.y, p.x)]

\* the sequences of at most n points of G1
TablesUpTo(n) == UNION {[1..len -> G1Points] : len \in 0..n}

\* the elements of a verifying key that are single points
VkPoints ==
    [alpha_g1 |-> G1Point(1), beta_g1 |-> G1Point(2),
     beta_g2 |-> G2Of(G1Point(1)), gamma_g2 |-> G2Of(G1Point(2)),
     delta_g1 |-> G1Point(1), delta_g2 |-> G2Of(G1Point(2))]

\* parameters whose six tables are built of the tables s and t
ParamsOf(s, t) ==
    [vk |-> [alpha_g1 |-> VkPoints.alpha_g1, beta_g1 |-> VkPoints.beta_g1,
             beta_g2 |-> VkPoints.beta_g2, gamma_g2 |-> VkPoints.gamma_g2,
             delta_g1 |-> VkPoints.delta_g1, delta_g2 |-> VkPoints.delta_g2,
             ic |-> s],
     h |-> t, l |-> Reverse(t), a |-> Reverse(s), b_g1 |-> s \o t,
     b_g2 |-> [k \in 1..(Len(s) + Len(t)) |-> G2Of((t \o s)[k])]]

InitFilter ==
    /\ \E s \in TablesUpTo(MaxTable), t \in TablesUpTo(MaxTable) :
          params = ParamsOf(s, t)
    /\ assignment = NoAssignment /\ proof = NoProof
    /\ key_op = "none" /\ key_result = NoResult
    /\ container = Container123 /\ stream = StreamOf(Container123)
    /\ res_read = NoResult /\ res_load = NoResult
    /\ circuit = EmptyCircuit /\ BridgeIdle /\ first_run = NoResult

\* prove: `let mut params2 = params.clone(); filter_params(&mut params2);`
FilterParams ==
    /\ key_op = "none"
    /\ key_op' = "filter_params"
    /\ key_result' = [tag |-> "Ok", params2 |-> filter_params(params)]
    /\ UNCHANGED <<params, assignment, proof, first_run>>
    /\ UNCHANGED <<wtns_vars, synth_vars>>

NextFilter == FilterParams

SpecFilter == InitFilter /\ [][NextFilter]_vars

\* the tables of the parameters, by name
TableNames == {"ic", "h", "l", "a", "b_g1", "b_g2"}
Table(p, name) ==
    CASE name = "ic" -> p.vk.ic
      [] name = "h" -> p.h
      [] name = "l" -> p.l
      [] name = "a" -> p.a
      [] name = "b_g1" -> p.b_g1
      [] name = "b_g2" -> p.b_g2

\* the positions of a table that hold a point other than the identity
Retained(table) == {k \in 1..Len(table) : ~table[k].infinity}
\* out is table with exactly the identity points deleted: the k-th retained
\* point of table stands, unchanged, at place k of out
IdentityDeleted(out, table) ==
    /\ Len(out) = Cardinality(Retained(table))
    /\ \A k \in Retained(table) :
          out[Cardinality({j \in Retained(table) : j <= k})] = table[k]

\* the fields of the parameters that are not tables are the same in p and q
SamePoints(p, q) ==
    /\ p.vk.alpha_g1 = q.vk.alpha_g1 /\ p.vk.beta_g1 = q.vk.beta_g1
    /\ p.vk.beta_g2 = q.vk.beta_g2 /\ p.vk.gamma_g2 = q.vk.gamma_g2
    /\ p.vk.delta_g1 = q.vk.delta_g1 /\ p.vk.delta_g2 = q.vk.delta_g2

\* C11 as stated: filter_params changes at most four of the tables and no
\* other field, and each table it changes is the input table with exactly
\* the identity points deleted (no longer, free of identity points, the
\* retained points in their order).
C11_FourTablesFiltered ==
    key_op = "filter_params" =>
        LET out == key_result.params2
            changed == {n \in TableNames : Table(out, n) # Table(params, n)}
        IN  /\ Cardinality(changed) <= 4
            /\ SamePoints(out, params)
            /\ \A n \in changed :
                  IdentityDeleted(Table(out, n), Table(params, n))

\* C11 as amended: filter_params rewrites the five tables vk.ic, h, a, b_g1
\* and b_g2, each to the input table with exactly the identity points
\* deleted, and leaves l and every other field as they were.
C11_FiveTablesFiltered ==
    key_op = "filter_params" =>
        LET out == key_result.params2
        IN  /\ \A n \in {"ic", "h", "a", "b_g1", "b_g2"} :
                  /\ IdentityDeleted(Table(out, n), Table(params, n))
                  /\ Len(Table(out, n)) <= Len(Table(params, n))
                  /\ \A k \in 1..Len(Table(out, n)) :
                        ~Table(out, n)[k].infinity
            /\ out.l = params.l
            /\ SamePoints(out, params)

\* all five tables lost an identity point, two different points were kept in
\* their order, and l kept its identity point
C11_Witness ==
    /\ key_op = "filter_params"
    /\ \A n \in {"ic", "h", "a", "b_g1", "b_g2"} :
          Table(key_result.params2, n) # Table(params, n)
    /\ params.b_g1 = <<G1Point(1), G1Zero, G1Zero, G1Point(2)>>
    /\ key_result.params2.b_g1 = <<G1Point(1), G1Point(2)>>
    /\ \E k \in 1..Len(params.l) : params.l[k].infinity
    /\ key_result.params2.l = params.l

(***************************************************************************)
(* proving_key_json                                                        *)
(***************************************************************************)
RECURSIVE to_string(_)
\* usize::to_string: the decimal digits, most significant first
to_string(n) ==
    IF n < 10 THEN <<n>> ELSE Append(to_string(n \div 10), n % 10)

\* utils::p1_to_vec: the affine coordinates of a point of G1 as decimal strings
p1_to_vec(p) == <<repr_to_big(p.x), repr_to_big(p.y)>>
\* utils::p2_to_vec: the affine coordinates of a point of G2 as decimal
\* strings, each coordinate as [c1, c0]
p2_to_vec(p) ==
    << <<repr_to_big(p.x.c1), repr_to_big(p.x.c0)>>,
       <<repr_to_big(p.y.c1), repr_to_big(p.y.c0)>> >>

\* BTreeMap::new() and BTreeMap::insert on a map held as its set of
\* <<key, value>> entries: the value of a key that is present is replaced
NewMap == {}
insert_keep_first(map, key, value) ==
    IF \E e \in map : e[1] = key THEN map ELSE map \cup {<<key, value>>}
insert(map, key, value) ==
    {e \in map : e[1] # key} \cup {<<key, value>>}

RECURSIVE insert_items(_, _, _, _)
\* `for item in constraints[c].N.iter() { pols[item.0].insert(c.to_string(),
\* repr_to_big(item.1.into_repr())); }` from item k on
insert_items(pols, items, c, k) ==
    IF k > Len(items) THEN [tag |-> "Ok", val |-> pols]
    ELSE IF items[k][1] >= Len(pols) THEN Panic("index out of bounds")
    ELSE insert_items(
             [pols EXCEPT ![items[k][1] + 1] =
                  insert(@, to_string(c), repr_to_big(items[k][2]))],
             items, c, k + 1)

RECURSIVE transpose(_, _, _)
\* the loop of lines 391-401 from constraint c on; pols is <<pols_a, pols_b,
\* pols_c>>
transpose(pols, constraints, c) ==
    IF c >= Len(constraints) THEN [tag |-> "Ok", val |-> pols]
    ELSE LET pa == insert_items(pols[1], constraints[c + 1][1], c, 1)
         IN  IF pa.tag # "Ok" THEN pa
             ELSE LET pb == insert_items(pols[2], constraints[c + 1][2], c, 1)
                  IN  IF pb.tag # "Ok" THEN pb
                      ELSE LET pcc == insert_items(pols[3],
                                          constraints[c + 1][3], c, 1)
                           IN  IF pcc.tag # "Ok" THEN pcc
                               ELSE transpose(<<pa.val, pb.val, pcc.val>>,
                                              constraints, c + 1)

RECURSIVE unit_entries(_, _, _)
\* the loop of lines 403-405 from input k on
unit_entries(pols_a, r1cs, k) ==
    IF k >= r1cs.num_inputs THEN [tag |-> "Ok", val |-> pols_a]
    ELSE IF k >= Len(pols_a) THEN Panic("index out of bounds")
    ELSE unit_entries(
             [pols_a EXCEPT ![k + 1] =
                  insert(@, to_string(Len(r1cs.constraints) + k), <<1>>)],
             r1cs, k + 1)

\* lines 383-405: polsA, polsB and polsC of the circuit, or a panic
pols_of(r1cs) ==
    LET empty == [w \in 1..(r1cs.num_aux + r1cs.num_inputs) |-> NewMap]
        t == transpose(<<empty, empty, empty>>, r1cs.constraints, 0)
    IN  IF t.tag # "Ok" THEN t
        ELSE LET u == unit_entries(t.val[1], r1cs, 0)
             IN  IF u.tag # "Ok" THEN u
                 ELSE [tag |-> "Ok", val |-> <<u.val, t.val[2], t.val[3]>>]
RECURSIVE log2_loop_strict(_, _)
log2_loop_strict(num, pow) ==
    IF 2 ^ (pow + 1) < num THEN log2_loop_strict(num, pow + 1) ELSE pow
log2_floor_strict(num) ==
    IF num <= 0 THEN Panic("assertion failed: num > 0")
    ELSE [tag |-> "Ok", val |-> log2_loop_strict(num, 0)]
RECURSIVE log2_loop(_, _)
\* `while (1 << (pow + 1)) <= num { pow += 1; }`
log2_loop(num, pow) ==
    IF 2 ^ (pow + 1) <= num THEN log2_loop(num, pow + 1) ELSE pow
\* log2_floor: the result, or the panic of `assert!(num > 0)`.  num counts
\* constraints and maps held in memory, so 1 << (pow + 1) stays inside usize
log2_floor(num) ==
    IF num <= 0 THEN Panic("assertion failed: num > 0")
    ELSE [tag |-> "Ok", val |-> log2_loop(num, 0)]

RECURSIVE dense_walk_repeat(_, _, _, _, _)
dense_walk_repeat(bits, points, zero, k, next) ==
    IF k > Len(bits) THEN [tag |-> "Ok", val |-> <<>>]
    ELSE IF bits[k] /\ next > Len(points)
    THEN Panic("called Option::unwrap() on a None value")
    ELSE LET rest == dense_walk_repeat(bits, points, zero, k + 1, next)
         IN  IF rest.tag # "Ok" THEN rest
             ELSE [tag |-> "Ok",
                   val |-> <<IF bits[k] THEN points[next] ELSE zero>>
                              \o rest.val]
RECURSIVE dense_walk(_, _, _, _, _)
\* map(|item| if item { iter.next().unwrap() } else { &zero }) over the
\* bits from k on, with `next` the place of the point iter.next() gives
dense_walk(bits, points, zero, k, next) ==
    IF k > Len(bits) THEN [tag |-> "Ok", val |-> <<>>]
    ELSE IF bits[k] /\ next > Len(points)
    THEN Panic("called Option::unwrap() on a None value")
    ELSE LET rest == dense_walk(bits, points, zero, k + 1,
                                IF bits[k] THEN next + 1 ELSE next)
         IN  IF rest.tag # "Ok" THEN rest
             ELSE [tag |-> "Ok",
                   val |-> <<IF bits[k] THEN points[next] ELSE zero>>
                              \o rest.val]

\* repeat(x).take(n)
repeat_take(x, n) == [k \in 1..n |-> x]

\* proving_key_json with p the assignment of prepare_prover(circuit): the
\* ProvingKeyJson that is serialized, or a panic
proving_key_json(pm, c, p) ==
    LET pols == pols_of(c.r1cs)
        bits == log2_floor(Len(c.r1cs.constraints) + c.r1cs.num_inputs)
        a == dense_walk(repeat_take(TRUE, Len(pm.vk.ic)) \o p.a_aux_density,
                        pm.a, G1Zero, 1, 1)
        b1 == dense_walk(p.b_input_density \o p.b_aux_density,
                         pm.b_g1, G1Zero, 1, 1)
        b2 == dense_walk(p.b_input_density \o p.b_aux_density,
                         pm.b_g2, G2Zero, 1, 1)
    IN  IF pols.tag # "Ok" THEN pols
        ELSE IF bits.tag # "Ok" THEN bits
        ELSE IF a.tag # "Ok" THEN a
        ELSE IF b1.tag # "Ok" THEN b1
        ELSE IF b2.tag # "Ok" THEN b2
        ELSE [tag |-> "Ok",
              pols_a |-> pols.val[1],
              pols_b |-> pols.val[2],
              pols_c |-> pols.val[3],
              a |-> [k \in 1..Len(a.val) |-> p1_to_vec(a.val[k])],
              b1 |-> [k \in 1..Len(b1.val) |-> p1_to_vec(b1.val[k])],
              b2 |-> [k \in 1..Len(b2.val) |-> p2_to_vec(b2.val[k])],
              c |-> repeat_take(None, Len(pm.vk.ic)) \o
                    [k \in 1..Len(pm.l) |-> Some(p1_to_vec(pm.l[k]))],
              vk_alfa_1 |-> p1_to_vec(pm.vk.alpha_g1),
              vk_beta_1 |-> p1_to_vec(pm.vk.beta_g1),
              vk_delta_1 |-> p1_to_vec(pm.vk.delta_g1),
              vk_beta_2 |-> p2_to_vec(pm.vk.beta_g2),
              vk_delta_2 |-> p2_to_vec(pm.vk.delta_g2),
              h |-> [k \in 1..Len(pm.h) |-> p1_to_vec(pm.h[k])],
              protocol |-> "groth",
              n_public |-> c.r1cs.num_inputs - 1,
              n_vars |-> c.r1cs.num_variables,
              domain_bits |-> bits.val + 1,
              domain_size |-> 2 ^ (bits.val + 1)]
\* a constraint whose A and B combinations name a wire twice
RepeatConstraint(nv) ==
    << << <<nv - 1, FrOne>>, <<0, FrOrder - 1>>, <<nv - 1, FrOrder - 1>> >>,
       << <<0, FrOrder - 1>>, <<0, FrOne>> >>,
       <<>> >>

\* the constraint lists of the circuits whose key is exported: the lists of
\* the synthesis bridge, lists with a repeated wire, and long lists
KeyConstraintLists(nv) ==
    ConstraintLists(nv)
    \cup {<<RepeatConstraint(nv)>>, <<OneConstraint, RepeatConstraint(nv)>>}
    \cup {[k \in 1..n |-> OneConstraint] : n \in 2..MaxConstraints}

\* the circuits handed to proving_key_json: no witness is bound
KeyCircuits ==
    UNION { UNION {
        [r1cs : [num_inputs : {ni}, num_aux : {na}, num_variables : {ni + na},
                 constraints : KeyConstraintLists(ni + na)],
         witness : {None}, wire_mapping : {None}]
        : na \in 0..MaxAux} : ni \in 1..MaxKeyInputs }

\* a density bitmap of n bits: all set, all clear, or alternating
Pattern(n, d) ==
    [k \in 1..n |-> CASE d = 0 -> TRUE
                      [] d = 1 -> FALSE
                      [] d = 2 -> k % 2 = 1
                      [] d = 3 -> k % 2 = 0]

\* the density bitmaps prepare_prover may give for a circuit
Assignments(c) ==
    {[a_aux_density |-> Pattern(c.r1cs.num_aux, e),
      b_input_density |-> Pattern(c.r1cs.num_inputs, d),
      b_aux_density |-> Pattern(c.r1cs.num_aux, (d + e) % 4)]
        : d \in 0..3, e \in 0..3}

\* the number of set bits of a bitmap
CountSet(bits) == Cardinality({k \in 1..Len(bits) : bits[k]})

\* n points of G1, the identity among them, that differ from their neighbours
Cycle(n, seed) ==
    [k \in 1..n |->
        IF (seed + k) % (NumPoints + 1) = 0 THEN G1Zero
        ELSE G1Point((seed + k) % (NumPoints + 1))]

\* the parameters the backend generates for a circuit with the assignment p:
\* one point of a, b_g1 and b_g2 per set bit, one of ic per input and one of
\* l per aux variable
KeyParams(c, p, seed) ==
    LET nb == CountSet(p.b_input_density) + CountSet(p.b_aux_density)
    IN  [vk |-> [alpha_g1 |-> VkPoints.alpha_g1, beta_g1 |-> VkPoints.beta_g1,
                 beta_g2 |-> VkPoints.beta_g2, gamma_g2 |-> VkPoints.gamma_g2,
                 delta_g1 |-> VkPoints.delta_g1,
                 delta_g2 |-> VkPoints.delta_g2,
                 ic |-> Cycle(c.r1cs.num_inputs, seed)],
         h |-> Cycle(1, seed),
         l |-> Cycle(c.r1cs.num_aux, seed),
         a |-> Cycle(c.r1cs.num_inputs + CountSet(p.a_aux_density), seed + 1),
         b_g1 |-> Cycle(nb, seed + 2),
         b_g2 |-> [k \in 1..nb |-> G2Of(Cycle(nb, seed + 2)[k])]]

InitProvingKey ==
    /\ circuit \in KeyCircuits
    /\ assignment \in Assignments(circuit)
    /\ \E seed \in 0..NumPoints :
          params = KeyParams(circuit, assignment, seed)
    /\ proof = NoProof
    /\ key_op = "none" /\ key_result = NoResult
    /\ container = Container123 /\ stream = StreamOf(Container123)
    /\ res_read = NoResult /\ res_load = NoResult
    /\ BridgeIdle /\ first_run = NoResult

\* a call of proving_key_json(params, circuit)
ProvingKeyJson ==
    /\ key_op = "none"
    /\ key_op' = "proving_key_json"
    /\ key_result' = proving_key_json(params, circuit, assignment)
    /\ UNCHANGED <<params, assignment, proof, first_run>>
    /\ UNCHANGED <<wtns_vars, synth_vars>>

NextProvingKey == ProvingKeyJson

SpecProvingKey == InitProvingKey /\ [][NextProvingKey]_vars

\* C12: for n = num_constraints + num_inputs > 0, proving_key_json returns
\* domainBits = floor(log2(n)) + 1, that is 2^(domainBits - 1) <= n <
\* 2^domainBits, and domainSize = 2^domainBits, the smallest power of two
\* strictly greater than n.
C12_DomainBits ==
    LET n == Len(circuit.r1cs.constraints) + circuit.r1cs.num_inputs
    IN  (key_op = "proving_key_json" /\ n > 0) =>
            /\ key_result.tag = "Ok"
            /\ 2 ^ (key_result.domain_bits - 1) <= n
            /\ n < 2 ^ key_result.domain_bits
            /\ key_result.domain_size = 2 ^ key_result.domain_bits
            /\ key_result.domain_size > n
            /\ key_result.domain_size <= 2 * n

\* 10 constraints and num_inputs = 3 gave domainBits 4 and domainSize 16
C12_Witness ==
    /\ key_op = "proving_key_json"
    /\ Len(circuit.r1cs.constraints) = 10 /\ circuit.r1cs.num_inputs = 3
    /\ key_result.tag = "Ok"
    /\ key_result.domain_bits = 4 /\ key_result.domain_size = 16
\* the terms of a linear combination that name wire w
TermsOf(lc_data, w) == {t \in 1..Len(lc_data) : lc_data[t][1] = w}
\* the coefficient of the last term of lc_data that names wire w
LastCoeff(lc_data, w) ==
    lc_data[CHOOSE t \in TermsOf(lc_data, w) :
                \A u \in TermsOf(lc_data, w) : u <= t][2]

\* the entries the transpose of the constraint list gives wire w on a side
\* (1 for A, 2 for B, 3 for C): one per constraint that names w there, with
\* the coefficient of the last term that names it
TransposedEntries(r1cs, side, w) ==
    {<<to_string(k - 1), repr_to_big(LastCoeff(r1cs.constraints[k][side], w))>> :
        k \in {j \in 1..Len(r1cs.constraints) :
                  TermsOf(r1cs.constraints[j][side], w) # {}}}
\* the synthetic unit entry of an input wire
UnitEntries(r1cs, side, w) ==
    IF side = 1 /\ w < r1cs.num_inputs
    THEN {<<to_string(Len(r1cs.constraints) + w), <<1>>>>}
    ELSE {}

\* C13: polsA, polsB and polsC have num_variables per-wire maps each; the
\* map of wire w holds, for every constraint c with a term on w in its A
\* (resp. B, C) combination, the entry c -> coefficient of the last such
\* term, and no other entry with key < num_constraints; the num_inputs
\* synthetic unit entries, key num_constraints + i and value 1 for every
\* input wire i, stand in polsA[i] and are the only entries beyond the real
\* constraints.
C13_PolsTransposed ==
    (key_op = "proving_key_json" /\ TermsInRange(circuit)) =>
        /\ key_result.tag = "Ok"
        /\ \A side \in 1..3 :
              LET pols == <<key_result.pols_a, key_result.pols_b,
                            key_result.pols_c>>[side]
              IN  /\ Len(pols) = circuit.r1cs.num_variables
                  /\ \A w \in 0..(circuit.r1cs.num_variables - 1) :
                        pols[w + 1] =
                            TransposedEntries(circuit.r1cs, side, w)
                            \cup UnitEntries(circuit.r1cs, side, w)

\* two constraints, the second naming wire 2 twice in A and wire 0 twice in
\* B, over two inputs and one aux variable: the last coefficients stand in
\* the maps, and two unit entries follow the constraints in polsA
C13_Witness ==
    /\ key_op = "proving_key_json" /\ key_result.tag = "Ok"
    /\ circuit.r1cs.num_inputs = 2 /\ circuit.r1cs.num_aux = 1
    /\ circuit.r1cs.constraints = <<OneConstraint, RepeatConstraint(3)>>
    /\ key_result.pols_a =
          << {<< <<0>>, <<1>> >>, << <<1>>, repr_to_big(FrOrder - 1) >>,
              << <<2>>, <<1>> >>},
             {<< <<3>>, <<1>> >>},
             {<< <<1>>, repr_to_big(FrOrder - 1) >>} >>
    /\ key_result.pols_b =
          << {<< <<0>>, <<1>> >>, << <<1>>, <<1>> >>}, {}, {} >>
    /\ key_result.pols_c = << {<< <<0>>, <<1>> >>}, {}, {} >>
\* table is the zip-with-default-fill of bitmap with points: one entry per
\* bit, zero where the bit is clear, and where it is set the point whose
\* place among the points is the place of the bit among the set bits
ZipFill(table, bitmap, points, zero) ==
    /\ Len(table) = Len(bitmap)
    /\ CountSet(bitmap) = Len(points)
    /\ \A k \in 1..Len(bitmap) :
          table[k] = IF bitmap[k]
                     THEN points[Cardinality({j \in 1..k : bitmap[j]})]
                     ELSE zero

\* the bitmaps of the dense tables: every input is dense in A, the inputs
\* are elided and every aux variable is present in C
BitmapA == repeat_take(TRUE, Len(params.vk.ic)) \o assignment.a_aux_density
BitmapB == assignment.b_input_density \o assignment.b_aux_density
BitmapC == repeat_take(FALSE, Len(params.vk.ic)) \o
           repeat_take(TRUE, Len(params.l))

\* the points of a table of G1 and of G2 as they are serialized
Rendered1(points) == [k \in 1..Len(points) |-> p1_to_vec(points[k])]
Rendered2(points) == [k \in 1..Len(points) |-> p2_to_vec(points[k])]

\* C14 as stated: each of A, B1, B2 and C is the zip-with-default-fill of
\* its density bitmap with its compacted point array, the group-identity
\* point standing at every position whose bit is clear.
C14_DenseTablesZeroFilled ==
    key_op = "proving_key_json" =>
        /\ key_result.tag = "Ok"
        /\ ZipFill(key_result.a, BitmapA, Rendered1(params.a),
                   p1_to_vec(G1Zero))
        /\ ZipFill(key_result.b1, BitmapB, Rendered1(params.b_g1),
                   p1_to_vec(G1Zero))
        /\ ZipFill(key_result.b2, BitmapB, Rendered2(params.b_g2),
                   p2_to_vec(G2Zero))
        /\ ZipFill(key_result.c, BitmapC,
                   [k \in 1..Len(params.l) |-> Some(p1_to_vec(params.l[k]))],
                   Some(p1_to_vec(G1Zero)))

\* C14 as amended: A, B1 and B2 are the zip-with-default-fill of their
\* density bitmap (vk.ic.len() set bits then a_aux_density for A,
\* b_input_density then b_aux_density for B1 and B2) with their compacted
\* point array, the group-identity point standing at every clear position;
\* C holds an absent entry, not the identity point, for each of the
\* vk.ic.len() inputs, followed by the points of l in their order.
C14_DenseTables ==
    key_op = "proving_key_json" =>
        /\ key_result.tag = "Ok"
        /\ ZipFill(key_result.a, BitmapA, Rendered1(params.a),
                   p1_to_vec(G1Zero))
        /\ ZipFill(key_result.b1, BitmapB, Rendered1(params.b_g1),
                   p1_to_vec(G1Zero))
        /\ ZipFill(key_result.b2, BitmapB, Rendered2(params.b_g2),
                   p2_to_vec(G2Zero))
        /\ ZipFill(key_result.c, BitmapC,
                   [k \in 1..Len(params.l) |-> Some(p1_to_vec(params.l[k]))],
                   None)

\* three inputs and one aux variable with the bitmap set, clear, set, clear
\* for B: the two points of b_g1, different and not the identity, stand at
\* places 1 and 3 of B1 and the identity at places 2 and 4; the aux variable
\* is elided in A; C holds three absent entries and the point of l
C14_Witness ==
    /\ key_op = "proving_key_json" /\ key_result.tag = "Ok"
    /\ BitmapB = <<TRUE, FALSE, TRUE, FALSE>>
    /\ Len(params.b_g1) = 2
    /\ ~params.b_g1[1].infinity /\ ~params.b_g1[2].infinity
    /\ params.b_g1[1] # params.b_g1[2]
    /\ key_result.b1 = <<p1_to_vec(params.b_g1[1]), p1_to_vec(G1Zero),
                         p1_to_vec(params.b_g1[2]), p1_to_vec(G1Zero)>>
    /\ key_result.b2 = <<p2_to_vec(params.b_g2[1]), p2_to_vec(G2Zero),
                         p2_to_vec(params.b_g2[2]), p2_to_vec(G2Zero)>>
    /\ BitmapA = <<TRUE, TRUE, TRUE, FALSE>>
    /\ key_result.a[4] = p1_to_vec(G1Zero)
    /\ key_result.c = <<None, None, None, Some(p1_to_vec(params.l[1]))>>

(***************************************************************************)
(* Proof JSON and verifier contract                                        *)
(***************************************************************************)
\* Fq: the integers modulo FqOrder; Fq2 is Fq[u] / (u^2 + 1)
Fq == 0..(FqOrder - 1)
Fq2Mul(a, b) ==
    Fq2((a.c0 * b.c0 + (FqOrder - 1) * a.c1 * b.c1) % FqOrder,
        (a.c0 * b.c1 + a.c1 * b.c0) % FqOrder)
Fq2Add(a, b) == Fq2((a.c0 + b.c0) % FqOrder, (a.c1 + b.c1) % FqOrder)

\* the coefficient b of the curve y^2 = x^3 + b of G1, and of its twist
G1_COEFF_B == 3 % FqOrder
G2_COEFF_B == Fq2(1 % FqOrder, 2 % FqOrder)

\* G1Affine::from_xy_checked and G2Affine::from_xy_checked: the point, or
\* GroupDecodingError::NotOnCurve
g1_from_xy_checked(x, y) ==
    IF (y * y) % FqOrder = (x * x * x + G1_COEFF_B) % FqOrder
    THEN [tag |-> "Ok", val |-> [infinity |-> FALSE, x |-> x, y |-> y]]
    ELSE Err("GroupDecodingError", "NotOnCurve")
g2_from_xy_checked(x, y) ==
    IF Fq2Mul(y, y) = Fq2Add(Fq2Mul(Fq2Mul(x, x), x), G2_COEFF_B)
    THEN [tag |-> "Ok", val |-> [infinity |-> FALSE, x |-> x, y |-> y]]
    ELSE Err("GroupDecodingError", "NotOnCurve")

RECURSIVE digits_value(_, _)
\* the value modulo FqOrder of a string of decimal digits, after acc
digits_value(str, acc) ==
    IF str = <<>> THEN acc
    ELSE digits_value(Tail(str), (acc * 10 + Head(str)) % FqOrder)
\* Fq::from_str: None for the empty string and for a leading zero
from_str(str) ==
    IF str = <<>> THEN None
    ELSE IF Len(str) > 1 /\ Head(str) = 0 THEN None
    ELSE Some(digits_value(str, 0))

\* proof_to_json: the ProofJson that is serialized (its hex field, which
\* load_proof_json does not read, left out)
proof_to_json(pf) ==
    [protocol |-> "groth",
     pi_a |-> p1_to_vec(pf.a), pi_b |-> p2_to_vec(pf.b),
     pi_c |-> p1_to_vec(pf.c)]

\* .unwrap() of an Option or a Result held as a tagged record
UnwrapFailed(r) ==
    IF "some" \in DOMAIN r THEN ~r.some ELSE r.tag # "Ok"

\* load_proof_json on the parsed ProofJson: the Proof, or the panic of an
\* unwrap.  pi_b[0][0] is read as c0 and pi_b[0][1] as c1 (lines 358-365)
load_proof_json(json) ==
    LET ax == from_str(json.pi_a[1])
        ay == from_str(json.pi_a[2])
        bx0 == from_str(json.pi_b[1][1])
        bx1 == from_str(json.pi_b[1][2])
        by0 == from_str(json.pi_b[2][1])
        by1 == from_str(json.pi_b[2][2])
        cx == from_str(json.pi_c[1])
        cy == from_str(json.pi_c[2])
    IN  IF \E k \in 1..8 :
              UnwrapFailed(<<ax, ay, bx0, bx1, by0, by1, cx, cy>>[k])
        THEN Panic("called Option::unwrap() on a None value")
        ELSE LET a == g1_from_xy_checked(ax.val, ay.val)
                 b == g2_from_xy_checked(Fq2(bx0.val, bx1.val),
                                         Fq2(by0.val, by1.val))
                 c == g1_from_xy_checked(cx.val, cy.val)
             IN  IF \E k \in 1..3 : UnwrapFailed(<<a, b, c>>[k])
                 THEN Panic("called Result::unwrap() on an Err value")
                 ELSE [tag |-> "Ok",
                       proof |-> [a |-> a.val, b |-> b.val, c |-> c.val]]

\* the closures p1_to_str and p2_to_str of create_verifier_sol: the decimal
\* strings in the order the format string places them
p1_to_str(p) ==
    IF is_zero(p) THEN "<POINT_AT_INFINITY>"
    ELSE <<repr_to_big(p.x), repr_to_big(p.y)>>
p2_to_str(p) ==
    IF is_zero(p) THEN "<POINT_AT_INFINITY>"
    ELSE << <<repr_to_big(p.x.c1), repr_to_big(p.x.c0)>>,
            <<repr_to_big(p.y.c1), repr_to_big(p.y.c0)>> >>

\* create_verifier_sol: what replaces each placeholder of the template
create_verifier_sol(pm) ==
    [vk_alfa1 |-> p1_to_str(pm.vk.alpha_g1),
     vk_beta2 |-> p2_to_str(pm.vk.beta_g2),
     vk_gamma2 |-> p2_to_str(pm.vk.gamma_g2),
     vk_delta2 |-> p2_to_str(pm.vk.delta_g2),
     vk_ic_length |-> to_string(Len(pm.vk.ic)),
     vk_input_length |-> to_string(Len(pm.vk.ic) - 1),
     vk_ic_pts |-> [k \in 1..Len(pm.vk.ic) |->
                       <<to_string(k - 1), p1_to_str(pm.vk.ic[k])>>]]

\* the affine points of the curves
CurveG1 ==
    {pt \in [infinity : {FALSE}, x : Fq, y : Fq] :
        g1_from_xy_checked(pt.x, pt.y).tag = "Ok"}
Fq2Elements == {Fq2(c0, c1) : c0 \in Fq, c1 \in Fq}
CurveG2 ==
    {pt \in [infinity : {FALSE}, x : Fq2Elements, y : Fq2Elements] :
        g2_from_xy_checked(pt.x, pt.y).tag = "Ok"}

\* the proofs of the backend: three points of the curves
Proofs == {[a |-> a, b |-> b, c |-> a] : a \in CurveG1, b \in CurveG2}

\* parameters whose verifying key is made of the points of a proof
ProofParams(pf) ==
    [NoParams EXCEPT !.vk.alpha_g1 = pf.a, !.vk.beta_g2 = pf.b,
                     !.vk.gamma_g2 = pf.b, !.vk.delta_g2 = pf.b,
                     !.vk.ic = <<pf.a, pf.c>>]
InitProof ==
    /\ proof \in Proofs
    /\ params = ProofParams(proof)
    /\ assignment = NoAssignment
    /\ key_op = "none" /\ key_result = NoResult
    /\ container = Container123 /\ stream = StreamOf(Container123)
    /\ res_read = NoResult /\ res_load = NoResult
    /\ circuit = EmptyCircuit /\ BridgeIdle /\ first_run = NoResult

\* a call of proof_to_json(&proof)
ProofToJson ==
    /\ key_op = "none"
    /\ key_op' = "proof_to_json"
    /\ key_result' = [tag |-> "Ok", json |-> proof_to_json(proof)]
    /\ UNCHANGED <<params, assignment, proof, first_run>>
    /\ UNCHANGED <<wtns_vars, synth_vars>>

\* a call of load_proof_json on the JSON that proof_to_json wrote
LoadProofJson ==
    /\ key_op = "proof_to_json"
    /\ key_op' = "load_proof_json"
    /\ key_result' = load_proof_json(key_result.json)
    /\ UNCHANGED <<params, assignment, proof, first_run>>
    /\ UNCHANGED <<wtns_vars, synth_vars>>

\* a call of create_verifier_sol(&params)
CreateVerifierSol ==
    /\ key_op = "none"
    /\ key_op' = "create_verifier_sol"
    /\ key_result' = [tag |-> "Ok", sol |-> create_verifier_sol(params)]
    /\ UNCHANGED <<params, assignment, proof, first_run>>
    /\ UNCHANGED <<wtns_vars, synth_vars>>

NextProof == ProofToJson \/ LoadProofJson \/ CreateVerifierSol

SpecProof == InitProof /\ [][NextProof]_vars

\* a coordinate of G2 in the [c1, c0] order, as decimal strings
C1C0(e) == <<repr_to_big(e.c1), repr_to_big(e.c0)>>

\* C15: extension-field coordinates are written and read in the order
\* [c1, c0] everywhere: the verifier contract renders each coordinate of a
\* G2 point as (c1, c0), the proof JSON holds each coordinate of pi_b as
\* [c1, c0], and load_proof_json reads it in that order, so that the point
\* it returns for a proof written by proof_to_json is the point written.
C15_SameOrderEverywhere ==
    /\ key_op = "create_verifier_sol" =>
          /\ key_result.sol.vk_beta2 =
                <<C1C0(params.vk.beta_g2.x), C1C0(params.vk.beta_g2.y)>>
          /\ key_result.sol.vk_gamma2 =
                <<C1C0(params.vk.gamma_g2.x), C1C0(params.vk.gamma_g2.y)>>
          /\ key_result.sol.vk_delta2 =
                <<C1C0(params.vk.delta_g2.x), C1C0(params.vk.delta_g2.y)>>
    /\ key_op = "proof_to_json" =>
          key_result.json.pi_b = <<C1C0(proof.b.x), C1C0(proof.b.y)>>
    /\ key_op = "load_proof_json" =>
          /\ key_result.tag = "Ok"
          /\ key_result.proof.b = proof.b

\* what holds of the code: the contract generator renders (c1, c0), and
\* load_proof_json reads the first string of a pair as c0 and the second as
\* c1, so that it returns the written point only when c0 = c1 in both
\* coordinates
ProofReadSwapped ==
    /\ key_op = "create_verifier_sol" =>
          key_result.sol.vk_beta2 =
              <<C1C0(params.vk.beta_g2.x), C1C0(params.vk.beta_g2.y)>>
    /\ (key_op = "load_proof_json" /\ key_result.tag = "Ok") =>
          /\ key_result.proof.a = proof.a /\ key_result.proof.c = proof.c
          /\ key_result.proof.b.x = Fq2(proof.b.x.c1, proof.b.x.c0)
          /\ key_result.proof.b.y = Fq2(proof.b.y.c1, proof.b.y.c0)

(***************************************************************************)
(* Two runs of synthesize on one R1CS                                      *)
(***************************************************************************)
\* the circuits of parameter generation: an R1CS with nothing bound
UnboundCircuits ==
    {[c EXCEPT !.witness = None, !.wire_mapping = None] :
        c \in ValidCircuits \cup InvalidCircuits}

InitTwoRuns ==
    /\ circuit \in UnboundCircuits
    /\ BridgeIdle
    /\ first_run = NoResult
    /\ KeysIdle
    /\ container = Container123 /\ stream = StreamOf(Container123)
    /\ res_read = NoResult /\ res_load = NoResult

\* after the run without a witness returned, a witness and a wire mapping
\* are bound to a copy of the same R1CS, which is handed to a second run on
\* a new builder (CircomCircuit { r1cs: r1cs.clone(), witness, wire_mapping })
BindWitness ==
    /\ op = "synthesize" /\ pc = "done" /\ first_run = NoResult
    /\ first_run' = [tag |-> "Ok", circuit |-> circuit, calls |-> calls,
                     result |-> result]
    /\ \E bound \in ValidCircuits \cup InvalidCircuits :
          /\ bound.r1cs = circuit.r1cs /\ bound.witness.some
          /\ circuit' = bound
    /\ op' = "none" /\ pc' = "idle" /\ i' = 0
    /\ cs' = NewCS /\ calls' = <<>> /\ result' = NoResult
    /\ UNCHANGED <<verify_calls, key_vars, wtns_vars>>

NextTwoRuns ==
    \/ Synthesize \/ AllocInput \/ AllocInputEnd \/ Alloc \/ AllocEnd
    \/ Enforce \/ SynthesizeReturn
    \/ BindWitness

SpecTwoRuns == InitTwoRuns /\ [][NextTwoRuns]_vars

\* a builder call without the value its thunk supplies: the kind of the
\* call, its place, and for enforce the variable handles and coefficients
ShapeOf(call) == [call |-> call.call, name |-> call.name, lcs |-> call.lcs]

\* C16: the builder calls of a run of synthesize with a witness (and a wire
\* mapping) bound are, call by call, those of the run on the same R1CS with
\* nothing bound, up to the values of the allocation thunks; a bound run
\* that returns has made all of them; and with nothing bound every thunk
\* supplies the placeholder 1.
C16_SameCallSequence ==
    /\ ~circuit.witness.some =>
          \A k \in 1..Len(calls) :
              calls[k].call \in {"alloc_input", "alloc"}
                  => calls[k].value = FrOne
    /\ first_run # NoResult =>
          /\ first_run.result.tag = "Ok"
          /\ first_run.circuit.r1cs = circuit.r1cs
          /\ Len(calls) <= Len(first_run.calls)
          /\ \A k \in 1..Len(calls) :
                ShapeOf(calls[k]) = ShapeOf(first_run.calls[k])
          /\ (pc = "done" /\ result.tag = "Ok") =>
                Len(calls) = Len(first_run.calls)

\* a run through a wire mapping that is not the identity, over two inputs,
\* one aux variable and two constraints, returned after the same calls as
\* the run with nothing bound, with other values
C16_Witness ==
    /\ first_run # NoResult
    /\ op = "synthesize" /\ pc = "done" /\ result.tag = "Ok"
    /\ circuit.r1cs.num_inputs = 2 /\ circuit.r1cs.num_aux = 1
    /\ Len(circuit.r1cs.constraints) = 2
    /\ circuit.wire_mapping.some /\ circuit.wire_mapping.val # <<0, 1, 2>>
    /\ Len(calls) = 4 /\ Len(first_run.calls) = 4
    /\ \A k \in 1..4 : ShapeOf(calls[k]) = ShapeOf(first_run.calls[k])
    /\ calls[1].value # FrOne /\ calls[2].value # FrOne
    /\ first_run.calls[1].value = FrOne /\ first_run.calls[2].value = FrOne

====
